---- MODULE Spec2Model ----
(***************************************************************************)
(* Model of mcs_output_encoders.py: the token store kept in row id = 1 of  *)
(* dbo.mcs_admin, the session manager (get_valid_token / bearer_token),    *)
(* the request executors (send_api_get_call / send_api_put_call) and the   *)
(* five domain operations built on them.                                   *)
(*                                                                         *)
(* The program is single threaded.  One domain operation runs at a time;   *)
(* every HTTP exchange and every database access is one step whose outcome *)
(* (status, body, database failure) is chosen by the environment.          *)
(***************************************************************************)
EXTENDS Integers, Sequences, FiniteSets, TLC

\* ---------------------------------------------------------------- bounds
MaxTime == 60           \* the clock stops advancing here
TickStep == 60          \* seconds that pass in one Tick
MaxIssue == 2           \* token pairs an endpoint's auth service issues
RecursionLimit == 2     \* nested send_api_*_call frames the interpreter allows

\* ------------------------------------------------------ program constants
Margin == 60            \* load_token: "more than 60 seconds left"

base_primary == "Primary"
base_secondary == "Secondary"
Endpoints == {base_primary, base_secondary}

\* lifetimes the auth service may give an access token it issues
TTLs == {2 * Margin}

\* ---------------------------------------------------------------- tokens
\* An access token is the text  seg1.seg2.seg3 ; the model keeps what
\* get_jwt_exp looks at: the number of dot-separated segments, whether the
\* second segment uses only the characters that base64 and base64url share
\* ("std") or also '-'/'_' ("url"), what the decoded bytes are ("exp": a
\* JSON object with an integer exp, "noexp": a JSON object without exp,
\* "notjson"), and the value of the exp claim.  ep and n say which endpoint
\* issued the token and in which of its responses.
NoToken == [ep |-> "none", n |-> 0, segs |-> 0, enc |-> "none", json |-> "none", exp |-> 0]
NoRefresh == [ep |-> "none", n |-> 0]
NoBody == [ep |-> "none", k |-> 0]

Jwt(e, n, x) == [ep |-> e, n |-> n, segs |-> 3, enc |-> "std", json |-> "exp", exp |-> x]
RTok(e, n) == [ep |-> e, n |-> n]

\* get_jwt_exp: split('.')[1] needs two segments; b64decode is the standard
\* alphabet decoder, so a payload holding '-' or '_' does not decode to the
\* JSON text; .get("exp", 0) on the parsed object; any exception gives 0.
get_jwt_exp(token) ==
    IF token.segs < 2 THEN 0
    ELSE IF token.enc # "std" THEN 0
    ELSE IF token.json # "exp" THEN 0
    ELSE token.exp

\* ----------------------------------------------------------- token store
\* a slip: one set of columns for both endpoints
get_token_columns_Shared(base_url) == "primary"

get_token_columns(base_url) ==
    IF base_url = base_primary THEN "primary" ELSE "secondary"

ColumnGroups == {"primary", "secondary"}
NullCols == [access |-> NoToken, refresh |-> NoRefresh, exp |-> 0]
Absent == [present |-> FALSE, access_token |-> NoToken, refresh_token |-> NoRefresh, exp |-> 0]

\* a slip: the outcome of the query used although reading it has failed
load_token_IgnoreFailure(d, base_url, t, dbOk) ==
    LET c == d.cols[get_token_columns(base_url)]
    IN  IF ~d.row \/ c.access = NoToken THEN Absent
        ELSE IF c.exp # 0 /\ c.exp > t + Margin
             THEN [present |-> TRUE, access_token |-> c.access,
                   refresh_token |-> c.refresh, exp |-> c.exp]
             ELSE Absent

\* load_token on database d at time t; dbOk = FALSE is any exception of the
\* connection or the query (caught, None returned).
load_token(d, base_url, t, dbOk) ==
    LET c == d.cols[get_token_columns(base_url)]
    IN  IF ~dbOk THEN Absent
        ELSE IF ~d.row \/ c.access = NoToken THEN Absent
        ELSE IF c.exp # 0 /\ c.exp > t + Margin
             THEN [present |-> TRUE, access_token |-> c.access,
                   refresh_token |-> c.refresh, exp |-> c.exp]
             ELSE Absent

\* a slip: an UPDATE that sets the access token and its expiry and leaves
\* the refresh token column as it was
save_token_AccessOnly(d, access_token, refresh_token, base_url) ==
    IF d.row
    THEN [d EXCEPT !.cols[get_token_columns(base_url)] =
             [access |-> access_token, refresh |-> @.refresh,
              exp |-> get_jwt_exp(access_token)]]
    ELSE d

\* save_token when the connection and the UPDATE succeed: UPDATE ... WHERE
\* id = 1 changes the three columns of the endpoint in the row when the row
\* exists and nothing when it does not.
save_token(d, access_token, refresh_token, base_url) ==
    IF d.row
    THEN [d EXCEPT !.cols[get_token_columns(base_url)] =
             [access |-> access_token, refresh |-> refresh_token,
              exp |-> get_jwt_exp(access_token)]]
    ELSE d


\* ------------------------------------------------------------------ state
VARIABLES
    now,             \* time.time()
    db,              \* dbo.mcs_admin: whether row id = 1 exists, its token columns
    cached_tokens,   \* _cached_tokens, NoToken for a missing key or None
    refresh_tokens,  \* _refresh_tokens, NoRefresh for a missing key
    issued,          \* responses with a token pair each auth service has given
    pc,              \* where the running domain operation is
    op,              \* the running domain operation and its arguments
    base_url,        \* base_url of the innermost send_api_*_call frame
    phase,           \* "try": inside the operation's try block, "fallback": in its except block
    depth,           \* nested send_api_*_call frames
    attempt,         \* 1: first request of the frame, 2: the retry after a 401
    headers,         \* the token in headers["Authorization"] of the frame
    invoked,         \* base_url of every send_api_*_call frame of the operation, in order
    sent,            \* resource requests of the operation, per endpoint
    top,             \* while the frame called by the operation is active: resource
                     \* requests per endpoint, and 1 for an endpoint sent an auth request
    frame,           \* what the innermost frame did
    gvt,             \* what the last get_valid_token call did
    handed,          \* the last token bearer_token returned, and when
    wire,            \* the last HTTP request sent
    result,          \* what the operation gave its caller
    saved,           \* the last save_token call made directly on the store
    loaded,          \* the last load_token call made directly on the store
    main,            \* where the collection loop of __main__ is
    call             \* bearer_token calls made from several threads

vars == <<now, db, cached_tokens, refresh_tokens, issued, pc, op, base_url, phase,
          depth, attempt, headers, invoked, sent, top, frame, gvt, handed, wire, result,
          saved, loaded, main, call>>

storeVars == <<db, cached_tokens, refresh_tokens, issued>>

Other(e) == IF e = base_primary THEN base_secondary ELSE base_primary
Zero == [e \in Endpoints |-> 0]

\* uuid arguments of get_one_output / put_one_output; the second one has the
\* characters 401 in it, so they appear in the URL of every request
UUIDs == {"0c1d", "7e401a"}
Contains401(uuid) == uuid = "7e401a"

NoOp == [method |-> "none", url401 |-> FALSE, payload |-> ""]
NoFrame == [ep |-> "none", reqs |-> <<>>, inval |-> 0, refetch |-> 0]
NoGvt == [ep |-> "none", present |-> FALSE, stored |-> NoToken, after401 |-> FALSE,
          refreshReqs |-> 0, loginReqs |-> 0, ret |-> NoToken]
NoTop == [ep |-> "none", reqs |-> Zero, auth |-> Zero]
NoWire == [kind |-> "none", to |-> "none", tok |-> NoToken, rtok |-> NoRefresh,
           method |-> "none", payload |-> ""]
NoHanded == [ep |-> "none", tok |-> NoToken, at |-> 0]
NoResult == [status |-> "none", body |-> NoBody, exc |-> ""]
NoSaved == [ep |-> "none", access |-> NoToken, refresh |-> NoRefresh, raised |-> FALSE]
NoLoaded == [ep |-> "none", rec |-> Absent, at |-> 0, dbOk |-> FALSE, of |-> NoSaved]

\* the functions that the loop of __main__ calls in each collection run
Functions == {"get_devices_table", "get_devices_status", "get_output_per_mcm",
              "get_mcm_outputs"}
\* pc: "off" before the loop, the function being run, "sleep", "exited";
\* ran: the functions called in this run; failed: those whose database part
\* raised; log: what was printed about an error; exit: how the process ended
NoMain == [pc |-> "off", ran |-> {}, failed |-> {}, log |-> {}, exit |-> ""]

\* threads calling bearer_token; pc: "idle", "bearer_token", "get_valid_token",
\* "refresh", "login", "returned", "raised"
Threads == {1, 2}
\* ep: the base_url of the call; ret: what get_valid_token returns to it;
\* conc: the call found no cached token while another such call for the
\* same base_url was running; logins: login requests it has sent
NoThread == [pc |-> "idle", ep |-> "none", ret |-> NoToken, conc |-> FALSE, logins |-> 0]
NoCall == [t \in Threads |-> NoThread]

\* the row of a fresh deployment: missing, or there with its token columns NULL
InitDbs ==
    {[row |-> FALSE, cols |-> [g \in ColumnGroups |-> NullCols]],
     [row |-> TRUE, cols |-> [g \in ColumnGroups |-> NullCols]]}

Init ==
    /\ now = 0
    /\ db \in InitDbs
    /\ cached_tokens = [e \in Endpoints |-> NoToken]
    /\ refresh_tokens = [e \in Endpoints |-> NoRefresh]
    /\ issued = Zero
    /\ pc = "idle"
    /\ op = NoOp
    /\ base_url = base_primary
    /\ phase = "try"
    /\ depth = 0
    /\ attempt = 1
    /\ headers = NoToken
    /\ invoked = <<>>
    /\ sent = Zero
    /\ top = NoTop
    /\ frame = NoFrame
    /\ gvt = NoGvt
    /\ handed = NoHanded
    /\ wire = NoWire
    /\ result = NoResult
    /\ saved = NoSaved
    /\ loaded = NoLoaded
    /\ main = NoMain
    /\ call = NoCall

\* ------------------------------------------------ calls, returns, raises
\* a send_api_*_call frame for endpoint e starts (line 193 / 218)
Invoke(e, d, ph, t) ==
    /\ base_url' = e
    /\ depth' = d
    /\ phase' = ph
    /\ attempt' = 1
    /\ pc' = "token"
    /\ invoked' = Append(invoked, e)
    /\ frame' = [NoFrame EXCEPT !.ep = e]
    /\ top' = IF d = 1 THEN [NoTop EXCEPT !.ep = e] ELSE t
    /\ result' = result

\* a slip: the except block calling the executor with its default base_url
fallback_url_Primary == base_primary

\* the base_url in the except block of every domain operation
fallback_url == base_secondary

\* An exception that no send_api_*_call frame catches leaves every frame.
\* Raised in the try block of the domain operation it reaches its bare
\* except, which calls the executor for base_secondary (lines 247-249);
\* raised in the except block it reaches the caller of the operation.
Raise(exc, f, t) ==
    IF phase = "try"
    THEN Invoke(fallback_url, 1, "fallback", t)
    ELSE /\ pc' = "done"
         /\ result' = [status |-> "fail", body |-> NoBody, exc |-> exc]
         /\ frame' = f
         /\ top' = t
         /\ UNCHANGED <<base_url, phase, depth, attempt, invoked>>

\* except HTTPError with "401" in str(e): return send_api_*_call(..., base_secondary)
\* (lines 212-214, 237-239); the interpreter refuses the call with
\* RecursionError when the stack is full.
Recurse(f, t) ==
    IF depth >= RecursionLimit
    THEN Raise("RecursionError", f, t)
    ELSE Invoke(base_secondary, depth + 1, phase, t)

\* return r.json(): the value passes through every frame to the caller of
\* the domain operation
Return(body, f, t) ==
    /\ pc' = "done"
    /\ result' = [status |-> "ok", body |-> body, exc |-> ""]
    /\ frame' = f
    /\ top' = t
    /\ UNCHANGED <<base_url, phase, depth, attempt, invoked>>


\* ------------------------------------------------------ domain operations
\* The try block of a domain operation: call the executor with its default
\* base_url, base_primary.  The except block is in Raise.
StartCall(o) ==
    /\ pc \in {"idle", "done"}
    /\ op' = o
    /\ base_url' = base_primary
    /\ depth' = 1
    /\ phase' = "try"
    /\ attempt' = 1
    /\ pc' = "token"
    /\ invoked' = <<base_primary>>
    /\ frame' = [NoFrame EXCEPT !.ep = base_primary]
    /\ top' = [NoTop EXCEPT !.ep = base_primary]
    /\ result' = NoResult
    /\ sent' = Zero
    /\ headers' = NoToken
    /\ gvt' = NoGvt
    /\ handed' = NoHanded
    /\ wire' = NoWire
    /\ UNCHANGED <<now, storeVars, saved, loaded,
                   main, call>>

\* The executor is given the path and, for PUT, the payload; of the path
\* the state keeps whether the characters 401 occur in it.
get_all_outputs ==
    StartCall([method |-> "GET", url401 |-> FALSE, payload |-> ""])

get_one_output ==
    \E uuid_of_source \in UUIDs :
        StartCall([method |-> "GET", url401 |-> Contains401(uuid_of_source), payload |-> ""])

get_all_devices ==
    StartCall([method |-> "GET", url401 |-> FALSE, payload |-> ""])

get_all_devices_status ==
    StartCall([method |-> "GET", url401 |-> FALSE, payload |-> ""])

put_one_output ==
    \E uuid_of_source \in UUIDs :
        StartCall([method |-> "PUT", url401 |-> Contains401(uuid_of_source),
                   payload |-> "payload_to_pass"])

\* -------------------------------------------------------- session manager
\* bearer_token returns token tok to the frame, which puts it in its headers
Hand(tok) ==
    /\ headers' = tok
    /\ handed' = [ep |-> base_url, tok |-> tok, at |-> now]
    /\ pc' = "send"

\* bearer_token with a token in _cached_tokens: returned as it is
bearer_token ==
    /\ pc = "token"
    /\ cached_tokens[base_url] # NoToken
    /\ Hand(cached_tokens[base_url])
    /\ gvt' = NoGvt
    /\ wire' = NoWire
    /\ UNCHANGED <<now, storeVars, op, base_url, phase, depth, attempt, invoked, sent, top,
                   frame, result, saved, loaded,
                   main, call>>

\* a slip: get_valid_token returning the access token of the record that
\* load_token found
get_valid_token_ReturnStored ==
    /\ pc = "token"
    /\ cached_tokens[base_url] = NoToken
    /\ \E dbOk \in BOOLEAN :
        LET cache == load_token(db, base_url, now, dbOk)
            rt == IF cache.present THEN cache.refresh_token ELSE refresh_tokens[base_url]
        IN  /\ cached_tokens' = IF cache.present
                                THEN [cached_tokens EXCEPT ![base_url] = cache.access_token]
                                ELSE cached_tokens
            /\ refresh_tokens' = [refresh_tokens EXCEPT ![base_url] = rt]
            /\ gvt' = [NoGvt EXCEPT !.ep = base_url, !.present = cache.present,
                                    !.stored = cache.access_token,
                                    !.after401 = (frame.inval > 0)]
            /\ IF cache.present
               THEN Hand(cache.access_token)
               ELSE /\ pc' = IF rt # NoRefresh THEN "refresh" ELSE "login"
                    /\ handed' = NoHanded
                    /\ headers' = headers
    /\ frame' = [frame EXCEPT !.refetch = IF frame.inval > 0 THEN @ + 1 ELSE @]
    /\ wire' = NoWire
    /\ UNCHANGED <<now, db, issued, op, base_url, phase, depth, attempt, invoked,
                   sent, top, result, saved, loaded,
                   main, call>>

\* bearer_token without one calls get_valid_token, which starts with
\* load_token and seeds both caches from a record it finds (lines 160-166)
get_valid_token ==
    /\ pc = "token"
    /\ cached_tokens[base_url] = NoToken
    /\ \E dbOk \in BOOLEAN :
        LET cache == load_token(db, base_url, now, dbOk)
            rt == IF cache.present THEN cache.refresh_token ELSE refresh_tokens[base_url]
        IN  /\ cached_tokens' = IF cache.present
                                THEN [cached_tokens EXCEPT ![base_url] = cache.access_token]
                                ELSE cached_tokens
            /\ refresh_tokens' = [refresh_tokens EXCEPT ![base_url] = rt]
            /\ gvt' = [NoGvt EXCEPT !.ep = base_url, !.present = cache.present,
                                    !.stored = cache.access_token,
                                    !.after401 = (frame.inval > 0)]
            /\ pc' = IF rt # NoRefresh THEN "refresh" ELSE "login"
    /\ frame' = [frame EXCEPT !.refetch = IF frame.inval > 0 THEN @ + 1 ELSE @]
    /\ handed' = NoHanded
    /\ wire' = NoWire
    /\ UNCHANGED <<now, db, issued, op, base_url, phase, depth, attempt, headers, invoked,
                   sent, top, result, saved, loaded,
                   main, call>>

\* the token pair in the next successful response of e's auth service
NewAccess(e, ttl) == Jwt(e, issued[e] + 1, now + ttl)
NewRefresh(e) == RTok(e, issued[e] + 1)

\* refresh_token inside get_valid_token's try (lines 166-171): POST the
\* refresh token; status >= 400, a network error or a body without the pair
\* raise; so does save_token when the database fails.  The bare except goes
\* on to login.
refresh_token ==
    /\ pc = "refresh"
    /\ wire' = [NoWire EXCEPT !.kind = "refresh", !.to = base_url, !.method = "POST",
                              !.rtok = refresh_tokens[base_url]]
    /\ top' = [top EXCEPT !.auth[base_url] = 1]
    /\ \/ /\ pc' = "login"
          /\ gvt' = [gvt EXCEPT !.refreshReqs = @ + 1]
          /\ UNCHANGED <<db, cached_tokens, issued, headers, handed>>
       \/ /\ issued[base_url] < MaxIssue
          /\ issued' = [issued EXCEPT ![base_url] = @ + 1]
          /\ \E ttl \in TTLs, dbOk \in BOOLEAN :
                IF dbOk
                THEN /\ db' = save_token(db, NewAccess(base_url, ttl), NewRefresh(base_url),
                                         base_url)
                     /\ cached_tokens' = [cached_tokens EXCEPT
                                             ![base_url] = NewAccess(base_url, ttl)]
                     /\ gvt' = [gvt EXCEPT !.refreshReqs = @ + 1,
                                           !.ret = NewAccess(base_url, ttl)]
                     /\ Hand(NewAccess(base_url, ttl))
                ELSE /\ pc' = "login"
                     /\ gvt' = [gvt EXCEPT !.refreshReqs = @ + 1]
                     /\ UNCHANGED <<db, cached_tokens, headers, handed>>
    /\ UNCHANGED <<now, refresh_tokens, op, base_url, phase, depth, attempt, invoked, sent,
                   frame, result, saved, loaded,
                   main, call>>

\* login and the rest of get_valid_token (lines 174-182): POST the
\* credentials; on a pair, save_token, then load_token to pick up the
\* refresh token.  Any exception (HTTP status, network, body, save_token)
\* becomes Exception("Could not authenticate to MCS"), which is not an
\* HTTPError: no frame catches it.
login ==
    /\ pc = "login"
    /\ wire' = [NoWire EXCEPT !.kind = "login", !.to = base_url, !.method = "POST"]
    /\ LET t == [top EXCEPT !.auth[base_url] = 1]
       IN  \/ /\ Raise("Could not authenticate to MCS", frame, t)
              /\ gvt' = [gvt EXCEPT !.loginReqs = @ + 1]
              /\ UNCHANGED <<storeVars, headers, handed>>
           \/ /\ issued[base_url] < MaxIssue
              /\ issued' = [issued EXCEPT ![base_url] = @ + 1]
              /\ \E ttl \in TTLs, dbOk \in BOOLEAN, dbOk2 \in BOOLEAN :
                    IF dbOk
                    THEN LET cache == load_token(db', base_url, now, dbOk2)
                         IN  /\ db' = save_token(db, NewAccess(base_url, ttl),
                                                 NewRefresh(base_url), base_url)
                             /\ cached_tokens' = [cached_tokens EXCEPT
                                                     ![base_url] = NewAccess(base_url, ttl)]
                             /\ refresh_tokens' =
                                    IF cache.present
                                    THEN [refresh_tokens EXCEPT
                                             ![base_url] = cache.refresh_token]
                                    ELSE refresh_tokens
                             /\ gvt' = [gvt EXCEPT !.loginReqs = @ + 1,
                                                   !.ret = NewAccess(base_url, ttl)]
                             /\ Hand(NewAccess(base_url, ttl))
                             /\ top' = t
                             /\ UNCHANGED <<base_url, phase, depth, attempt, invoked, frame,
                                            result>>
                    ELSE /\ Raise("Could not authenticate to MCS", frame, t)
                         /\ gvt' = [gvt EXCEPT !.loginReqs = @ + 1]
                         /\ UNCHANGED <<db, cached_tokens, refresh_tokens, headers, handed>>
    /\ UNCHANGED <<now, op, sent, saved, loaded,
                   main, call>>

\* ---------------------------------------------------------------- executor
\* what the endpoint may answer to a resource request: a status, no answer
\* at all (connection error, timeout), or 200 with a body that is not JSON
Statuses == {"200", "401", "500", "neterr", "badjson"}

\* a slip: the cached token left in place after a 401
Invalidate_Keep(tokens, e) == tokens

\* _cached_tokens[base_url] = None after a 401 (lines 206, 231)
Invalidate(tokens, e) == [tokens EXCEPT ![e] = NoToken]

\* "401" in str(e) for the HTTPError that raise_for_status makes of an
\* answer with this status to a request for a URL (lines 212, 237)
Str401(status, url401) == status = "401" \/ url401

\* One requests.get / requests.put of a frame and what the frame does with
\* the answer (lines 203-215, 228-240).  str(e) of the HTTPError raised by
\* raise_for_status holds the status and the URL.
Exchange ==
    /\ pc = "send"
    /\ wire' = [NoWire EXCEPT !.kind = "resource", !.to = base_url, !.tok = headers,
                              !.method = op.method, !.payload = op.payload]
    /\ sent' = [sent EXCEPT ![base_url] = @ + 1]
    /\ \E status \in Statuses :
        LET body == [ep |-> base_url, k |-> sent[base_url] + 1]
            f == [frame EXCEPT !.reqs = Append(@, [to |-> base_url, status |-> status,
                                  body |-> IF status = "200" THEN body ELSE NoBody])]
            t == [top EXCEPT !.reqs[base_url] = @ + 1]
        IN  CASE status = "200" ->
                    /\ Return(body, f, t)
                    /\ UNCHANGED cached_tokens
              [] status = "401" /\ attempt = 1 ->
                    /\ cached_tokens' = Invalidate(cached_tokens, base_url)
                    /\ frame' = [f EXCEPT !.inval = @ + 1]
                    /\ top' = t
                    /\ attempt' = 2
                    /\ pc' = "token"
                    /\ UNCHANGED <<base_url, phase, depth, invoked, result>>
              [] status = "401" /\ attempt = 2 ->
                    /\ IF Str401(status, op.url401)
                       THEN Recurse(f, t)
                       ELSE Raise("HTTPError", f, t)
                    /\ UNCHANGED cached_tokens
              [] status = "500" ->
                    /\ IF Str401(status, op.url401)
                       THEN Recurse(f, t)
                       ELSE Raise("HTTPError", f, t)
                    /\ UNCHANGED cached_tokens
              [] status = "neterr" ->
                    /\ Raise("RequestException", f, t)
                    /\ UNCHANGED cached_tokens
              [] status = "badjson" ->
                    /\ Raise("JSONDecodeError", f, t)
                    /\ UNCHANGED cached_tokens
    /\ gvt' = NoGvt
    /\ handed' = NoHanded
    /\ UNCHANGED <<now, db, refresh_tokens, issued, op, headers, saved, loaded,
                   main, call>>

send_api_get_call ==
    /\ op.method = "GET"
    /\ Exchange

send_api_put_call ==
    /\ op.method = "PUT"
    /\ Exchange

\* ------------------------------------------------------------------- time
Tick ==
    /\ now < MaxTime
    /\ now' = now + TickStep
    /\ UNCHANGED <<db, cached_tokens, refresh_tokens, issued, pc, op, base_url, phase,
                   depth, attempt, headers, invoked, sent, top, frame, gvt, handed, wire,
                   result, saved, loaded,
                   main, call>>

\* The process ends and is started again: the module globals are set up
\* anew (lines 152-153), the database row stays.
Restart ==
    /\ pc = "done"
    /\ cached_tokens' = [e \in Endpoints |-> NoToken]
    /\ refresh_tokens' = [e \in Endpoints |-> NoRefresh]
    /\ pc' = "idle"
    /\ op' = NoOp
    /\ base_url' = base_primary
    /\ phase' = "try"
    /\ depth' = 0
    /\ attempt' = 1
    /\ headers' = NoToken
    /\ invoked' = <<>>
    /\ sent' = Zero
    /\ top' = NoTop
    /\ frame' = NoFrame
    /\ gvt' = NoGvt
    /\ handed' = NoHanded
    /\ wire' = NoWire
    /\ result' = NoResult
    /\ UNCHANGED <<now, db, issued, saved, loaded,
                   main, call>>

Next ==
    \/ get_all_outputs
    \/ get_one_output
    \/ get_all_devices
    \/ get_all_devices_status
    \/ put_one_output
    \/ bearer_token
    \/ get_valid_token
    \/ refresh_token
    \/ login
    \/ send_api_get_call
    \/ send_api_put_call
    \/ Tick
    \/ Restart

Spec == Init /\ [][Next]_vars

\* ------------------------------------------------- the token store alone
\* save_token and load_token called directly, on any endpoint, with any
\* token pair of the shapes below, the database failing or not.
StoreShapes == {[segs |-> 3, enc |-> "std", json |-> "exp"],
                [segs |-> 3, enc |-> "url", json |-> "exp"],
                [segs |-> 2, enc |-> "std", json |-> "exp"],
                [segs |-> 3, enc |-> "std", json |-> "noexp"]}
StoreExps == {2 * Margin, 3 * Margin}
StoreAccess(e) ==
    {[ep |-> e, n |-> 1, segs |-> sh.segs, enc |-> sh.enc, json |-> sh.json,
      exp |-> IF sh.json = "exp" THEN x ELSE 0] : sh \in StoreShapes, x \in StoreExps}
StoreRefresh(e) == {RTok(e, 1), RTok(e, 2)}

StoreInit ==
    /\ now = 0
    /\ db \in InitDbs
    /\ cached_tokens = [e \in Endpoints |-> NoToken]
    /\ refresh_tokens = [e \in Endpoints |-> NoRefresh]
    /\ issued = Zero
    /\ pc = "idle"
    /\ op = NoOp
    /\ base_url = base_primary
    /\ phase = "try"
    /\ depth = 0
    /\ attempt = 1
    /\ headers = NoToken
    /\ invoked = <<>>
    /\ sent = Zero
    /\ top = NoTop
    /\ frame = NoFrame
    /\ gvt = NoGvt
    /\ handed = NoHanded
    /\ wire = NoWire
    /\ result = NoResult
    /\ saved = NoSaved
    /\ loaded = NoLoaded
    /\ main = NoMain
    /\ call = NoCall

progVars == <<cached_tokens, refresh_tokens, issued, pc, op, base_url, phase, depth, attempt,
              headers, invoked, sent, top, frame, gvt, handed, wire, result, main, call>>

\* save_token(access_token, refresh_token, base_url): an exception of the
\* connection or the UPDATE is printed and raised again (lines 113-115)
SaveCall ==
    \E e \in Endpoints, dbOk \in BOOLEAN :
        \E a \in StoreAccess(e), r \in StoreRefresh(e) :
            /\ db' = IF dbOk THEN save_token(db, a, r, e) ELSE db
            /\ saved' = [ep |-> e, access |-> a, refresh |-> r, raised |-> ~dbOk]
            /\ loaded' = NoLoaded
            /\ UNCHANGED <<now, progVars>>

\* load_token(base_url); of is the save_token call it follows
LoadCall ==
    \E e \in Endpoints, dbOk \in BOOLEAN :
        /\ loaded' = [ep |-> e, rec |-> load_token(db, e, now, dbOk), at |-> now,
                      dbOk |-> dbOk, of |-> saved]
        /\ saved' = NoSaved
        /\ UNCHANGED <<now, db, progVars>>

StoreNext ==
    \/ SaveCall
    \/ LoadCall
    \/ Tick

StoreSpec == StoreInit /\ [][StoreNext]_vars

\* ---------------------------------------------------- the collection loop
\* __main__ (lines 495-514): try: while True: the four functions, sleep;
\* except KeyboardInterrupt / except Exception around the whole loop.
opVars == <<op, base_url, phase, depth, attempt, headers, invoked, sent, top, frame, gvt,
            handed, wire, result>>

\* the loop goes on to function f (or to "sleep")
Enter(f) ==
    /\ main' = [main EXCEPT !.pc = f, !.ran = IF f \in Functions THEN @ \cup {f} ELSE @]
    /\ pc' = "idle"

\* an exception reaches the handlers of __main__, which are outside the
\* loop: except Exception prints it and the program ends (lines 511-514)
MainRaise(failed, printed) ==
    /\ main' = [main EXCEPT !.pc = "exited", !.exit = "error",
                            !.failed = @ \cup failed,
                            !.log = @ \cup printed \cup {"Error occurred"}]
    /\ pc' = pc

main_start ==
    /\ main.pc = "off"
    /\ pc = "idle"
    /\ Enter("get_devices_table")
    /\ UNCHANGED <<now, storeVars, opVars, saved, loaded, call>>

\* The part of a function after its domain operation (lines 300-338,
\* 344-372, 378-416).  The operation is called outside the function's try:
\* its exception leaves the function.  An exception of the database part is
\* printed and raised again.
StoreRows(f, next) ==
    /\ main.pc = f
    /\ pc = "done"
    /\ IF result.status = "fail"
       THEN MainRaise({}, {})
       ELSE \E dbOk \in BOOLEAN :
                IF dbOk THEN Enter(next) ELSE MainRaise({f}, {"Database error"})
    /\ UNCHANGED <<now, storeVars, opVars, saved, loaded, call>>

get_devices_table ==
    /\ main.pc = "get_devices_table"
    /\ pc = "idle"
    /\ get_all_devices

get_devices_table_store == StoreRows("get_devices_table", "get_devices_status")

get_devices_status ==
    /\ main.pc = "get_devices_status"
    /\ pc = "idle"
    /\ get_all_devices_status

get_devices_status_store == StoreRows("get_devices_status", "get_output_per_mcm")

get_output_per_mcm ==
    /\ main.pc = "get_output_per_mcm"
    /\ pc = "idle"
    /\ get_all_outputs

get_output_per_mcm_store == StoreRows("get_output_per_mcm", "get_mcm_outputs")

\* get_mcm_outputs (lines 419-491) calls no domain operation; the errors of
\* its requests to the devices are caught per device, those of the database
\* are printed and raised again.
get_mcm_outputs ==
    /\ main.pc = "get_mcm_outputs"
    /\ pc = "idle"
    /\ \E dbOk \in BOOLEAN :
        IF dbOk THEN Enter("sleep") ELSE MainRaise({"get_mcm_outputs"}, {"Database error"})
    /\ UNCHANGED <<now, storeVars, opVars, saved, loaded, call>>

\* time.sleep(600) and the next run of the loop
sleep ==
    /\ main.pc = "sleep"
    /\ now' = IF now < MaxTime THEN now + TickStep ELSE now
    /\ main' = [main EXCEPT !.pc = "get_devices_table", !.ran = {"get_devices_table"},
                            !.failed = {}, !.log = {}]
    /\ UNCHANGED <<storeVars, pc, opVars, saved, loaded, call>>

\* Ctrl-C while the loop sleeps or is between two calls: except
\* KeyboardInterrupt prints and the program ends (lines 509-510)
KeyboardInterrupt ==
    /\ main.pc \in Functions \cup {"sleep"}
    /\ pc \in {"idle", "done"}
    /\ main' = [main EXCEPT !.pc = "exited", !.exit = "shutdown",
                            !.log = @ \cup {"Shutdown requested"}]
    /\ UNCHANGED <<now, storeVars, pc, opVars, saved, loaded, call>>

MainNext ==
    \/ main_start
    \/ get_devices_table
    \/ get_devices_table_store
    \/ get_devices_status
    \/ get_devices_status_store
    \/ get_output_per_mcm
    \/ get_output_per_mcm_store
    \/ get_mcm_outputs
    \/ sleep
    \/ KeyboardInterrupt
    \/ bearer_token
    \/ get_valid_token
    \/ refresh_token
    \/ login
    \/ send_api_get_call

MainSpec == Init /\ [][MainNext]_vars

\* ------------------------------------------- bearer_token in two threads
\* The functions of the session manager called from several threads at
\* once.  They take no lock; a thread can be switched at every request and
\* every database access, which are the steps below.
seqVars == <<now, pc, opVars, saved, loaded, main>>

Running(t) == call[t].pc \in {"get_valid_token", "refresh", "login", "return"}

\* bearer_token, line 188: the test of _cached_tokens
thread_bearer_token(t) ==
    /\ call[t].pc = "idle"
    /\ \E e \in Endpoints :
        IF cached_tokens[e] # NoToken
        THEN call' = [call EXCEPT ![t] = [NoThread EXCEPT !.pc = "returned", !.ep = e,
                                                         !.ret = cached_tokens[e]]]
        ELSE LET others == {u \in Threads \ {t} : Running(u) /\ call[u].ep = e}
             IN  call' = [u \in Threads |->
                            IF u = t
                            THEN [NoThread EXCEPT !.pc = "get_valid_token", !.ep = e,
                                                  !.conc = (others # {})]
                            ELSE IF u \in others THEN [call[u] EXCEPT !.conc = TRUE]
                            ELSE call[u]]
    /\ UNCHANGED <<storeVars, seqVars>>

\* get_valid_token, lines 160-166
thread_get_valid_token(t) ==
    /\ call[t].pc = "get_valid_token"
    /\ \E dbOk \in BOOLEAN :
        LET e == call[t].ep
            cache == load_token(db, e, now, dbOk)
            rt == IF cache.present THEN cache.refresh_token ELSE refresh_tokens[e]
        IN  /\ cached_tokens' = IF cache.present
                                THEN [cached_tokens EXCEPT ![e] = cache.access_token]
                                ELSE cached_tokens
            /\ refresh_tokens' = [refresh_tokens EXCEPT ![e] = rt]
            /\ call' = [call EXCEPT ![t].pc = IF rt # NoRefresh THEN "refresh" ELSE "login"]
    /\ UNCHANGED <<db, issued, seqVars>>

\* lines 167-171 with refresh_token, lines 134-148
thread_refresh_token(t) ==
    /\ call[t].pc = "refresh"
    /\ LET e == call[t].ep
       IN  \/ /\ call' = [call EXCEPT ![t].pc = "login"]
              /\ UNCHANGED <<db, cached_tokens, issued>>
           \/ /\ issued[e] < MaxIssue
              /\ issued' = [issued EXCEPT ![e] = @ + 1]
              /\ \E ttl \in TTLs, dbOk \in BOOLEAN :
                    IF dbOk
                    THEN /\ db' = save_token(db, NewAccess(e, ttl), NewRefresh(e), e)
                         /\ cached_tokens' = [cached_tokens EXCEPT ![e] = NewAccess(e, ttl)]
                         /\ call' = [call EXCEPT ![t].pc = "return",
                                                 ![t].ret = NewAccess(e, ttl)]
                    ELSE /\ call' = [call EXCEPT ![t].pc = "login"]
                         /\ UNCHANGED <<db, cached_tokens>>
    /\ UNCHANGED <<refresh_tokens, seqVars>>

\* lines 174-182 with login, lines 118-131
thread_login(t) ==
    /\ call[t].pc = "login"
    /\ LET e == call[t].ep
       IN  \/ /\ call' = [call EXCEPT ![t].pc = "raised", ![t].logins = @ + 1]
              /\ UNCHANGED storeVars
           \/ /\ issued[e] < MaxIssue
              /\ issued' = [issued EXCEPT ![e] = @ + 1]
              /\ \E ttl \in TTLs, dbOk \in BOOLEAN, dbOk2 \in BOOLEAN :
                    IF dbOk
                    THEN LET cache == load_token(db', e, now, dbOk2)
                         IN  /\ db' = save_token(db, NewAccess(e, ttl), NewRefresh(e), e)
                             /\ cached_tokens' = [cached_tokens EXCEPT
                                                     ![e] = NewAccess(e, ttl)]
                             /\ refresh_tokens' =
                                    IF cache.present
                                    THEN [refresh_tokens EXCEPT ![e] = cache.refresh_token]
                                    ELSE refresh_tokens
                             /\ call' = [call EXCEPT ![t].pc = "return",
                                                     ![t].ret = NewAccess(e, ttl),
                                                     ![t].logins = @ + 1]
                    ELSE /\ call' = [call EXCEPT ![t].pc = "raised", ![t].logins = @ + 1]
                         /\ UNCHANGED <<db, cached_tokens, refresh_tokens>>
    /\ UNCHANGED seqVars

\* bearer_token, lines 189-190: the returned token is put in _cached_tokens
\* and returned to the thread
thread_return(t) ==
    /\ call[t].pc = "return"
    /\ cached_tokens' = [cached_tokens EXCEPT ![call[t].ep] = call[t].ret]
    /\ call' = [call EXCEPT ![t].pc = "returned"]
    /\ UNCHANGED <<db, refresh_tokens, issued, seqVars>>

ConcNext ==
    \E t \in Threads :
        \/ thread_bearer_token(t)
        \/ thread_get_valid_token(t)
        \/ thread_refresh_token(t)
        \/ thread_login(t)
        \/ thread_return(t)

ConcSpec == Init /\ [][ConcNext]_vars

\* ------------------------------------------------------------- properties
\* the request and its one retry after a 401 (lines 203 and 208)
MaxTries == 2

\* the expiry claim of a token that is a three-segment JWT with an exp claim
WellFormed(token) == token.segs = 3 /\ token.json = "exp"
ExpClaim(token) == IF WellFormed(token) THEN token.exp ELSE 0

Count(seq, e) == Cardinality({i \in DOMAIN seq : seq[i] = e})
Statuses2(f) == [i \in DOMAIN f.reqs |-> f.reqs[i].status]

\* C1: a token that bearer_token hands out for an endpoint does not expire
\* within 60 seconds of the moment it is handed out.
C1_NeverExpiredToken ==
    handed.tok # NoToken => ExpClaim(handed.tok) > handed.at + Margin

\* C2: when load_token finds a valid record, get_valid_token returns its
\* access token without sending a refresh or a login request (stated for
\* the calls that do not follow a 401 of the frame).
C2_StoredTokenNoNetwork ==
    (gvt.present /\ ~gvt.after401) => (gvt.refreshReqs = 0 /\ gvt.loginReqs = 0)

\* C3: a frame whose endpoint answers 401 and then 200 has invalidated the
\* cached token once and fetched a token once after that, has sent both
\* requests to its own endpoint and none elsewhere, and the operation ends
\* with the body of the 200 answer.
C3_AuthRetrySuccess ==
    Statuses2(frame) = <<"401", "200">> =>
        /\ frame.inval = 1
        /\ frame.refetch = 1
        /\ \A i \in DOMAIN frame.reqs : frame.reqs[i].to = frame.ep
        /\ pc = "done"
        /\ result.status = "ok"
        /\ result.body = frame.reqs[2].body
        /\ result.body.ep = frame.ep

C3_Witness ==
    /\ Statuses2(frame) = <<"401", "200">>
    /\ frame.ep = base_secondary
    /\ result.status = "ok"

\* C4: while the executor call made by a domain operation for an endpoint
\* is active, that endpoint gets at most two resource requests.
C4_NoThirdAttempt ==
    top.ep \in Endpoints => top.reqs[top.ep] <= MaxTries

\* C5: while the executor call made by a domain operation for an endpoint
\* is active, no request of any kind goes to the other endpoint.
C5_ExecutorStaysOnEndpoint ==
    top.ep \in Endpoints =>
        (top.reqs[Other(top.ep)] = 0 /\ top.auth[Other(top.ep)] = 0)

\* C6: when the executor was called for Secondary (Primary has failed) and
\* Secondary's answer is 200, the operation returns that body, the first
\* executor call was for Primary and there was exactly one for Primary.
C6_Failover ==
    (/\ pc = "done"
     /\ frame.ep = base_secondary
     /\ frame.reqs # <<>>
     /\ frame.reqs[Len(frame.reqs)].status = "200") =>
        /\ result.status = "ok"
        /\ result.body = frame.reqs[Len(frame.reqs)].body
        /\ result.body.ep = base_secondary
        /\ invoked[1] = base_primary
        /\ Count(invoked, base_primary) = 1

C6_Witness ==
    /\ pc = "done"
    /\ result.status = "ok"
    /\ result.body.ep = base_secondary
    /\ phase = "fallback"
    /\ op.method = "PUT"

\* C7: an operation ends by its own failure handling after the requests its
\* two executor calls may send, never by exhausting the interpreter's stack.
C7_BoundedRetries ==
    /\ result.exc # "RecursionError"
    /\ \A e \in Endpoints : sent[e] <= MaxTries * Cardinality(Endpoints)

\* C8: in a put_one_output each endpoint gets the PUT at most twice and the
\* executor is called for Secondary at most once.
C8_PutNotResent ==
    op.method = "PUT" =>
        /\ \A e \in Endpoints : sent[e] <= MaxTries
        /\ Count(invoked, base_secondary) <= 1

\* C9: a token presented to an endpoint, held in a cache for it or stored
\* in its columns was issued by that endpoint.
ColumnsOf(e) == IF e = base_primary THEN "primary" ELSE "secondary"
C9_TokenIsolation ==
    /\ wire.kind = "resource" => wire.tok.ep = wire.to
    /\ wire.kind = "refresh" => wire.rtok.ep = wire.to
    /\ \A e \in Endpoints :
        /\ cached_tokens[e] # NoToken => cached_tokens[e].ep = e
        /\ refresh_tokens[e] # NoRefresh => refresh_tokens[e].ep = e
        /\ db.cols[ColumnsOf(e)].access # NoToken =>
               (db.cols[ColumnsOf(e)].access.ep = e /\ db.cols[ColumnsOf(e)].refresh.ep = e)

C9_Witness ==
    /\ wire.kind = "resource"
    /\ wire.to = base_secondary
    /\ wire.tok.ep = base_secondary
    /\ cached_tokens[base_primary] # NoToken
    /\ db.cols["primary"].access # NoToken

\* C10: load_token right after a save_token of a well-formed token for the
\* same endpoint, neither failing in the database, returns the saved pair
\* with the token's expiry claim when that is more than 60 seconds away,
\* and nothing otherwise.
C10_RoundTrip ==
    (/\ loaded.ep \in Endpoints
     /\ loaded.of.ep = loaded.ep
     /\ ~loaded.of.raised
     /\ loaded.dbOk
     /\ WellFormed(loaded.of.access)) =>
        loaded.rec = IF ExpClaim(loaded.of.access) > loaded.at + Margin
                     THEN [present |-> TRUE, access_token |-> loaded.of.access,
                           refresh_token |-> loaded.of.refresh,
                           exp |-> ExpClaim(loaded.of.access)]
                     ELSE Absent

\* C11: a save_token of an access token that is not a three-segment JWT
\* with an exp claim, the database not failing and the row there, leaves 0
\* in the endpoint's expiry column, and the load_token that follows it for
\* the same endpoint returns nothing.
C11_MalformedStoredAsZero ==
    /\ (/\ saved.ep \in Endpoints
        /\ ~saved.raised
        /\ db.row
        /\ ~WellFormed(saved.access)) =>
            db.cols[ColumnsOf(saved.ep)].exp = 0
    /\ (/\ loaded.ep \in Endpoints
        /\ loaded.of.ep = loaded.ep
        /\ ~loaded.of.raised
        /\ ~WellFormed(loaded.of.access)) =>
            loaded.rec = Absent

\* C12: the token columns of an endpoint are NULL or hold one whole record:
\* an access token and a refresh token of the same response of that
\* endpoint's auth service, and the expiry claim of that access token; a
\* step that changes any of the three columns writes the access token and
\* the refresh token of a new response and the expiry of the new token.
Whole(c) ==
    \/ c = NullCols
    \/ /\ c.access # NoToken
       /\ c.refresh # NoRefresh
       /\ c.refresh.ep = c.access.ep
       /\ c.refresh.n = c.access.n
       /\ c.exp = ExpClaim(c.access)
Replaced(c, d) ==
    /\ d.access # c.access
    /\ d.refresh # c.refresh
    /\ d.access.n = issued'[d.access.ep]
    /\ Whole(d)
RefreshSent == gvt'.refreshReqs = gvt.refreshReqs + 1
LoginSent == gvt'.loginReqs = gvt.loginReqs + 1
C13_SessionOrdering ==
    /\ [](gvt.refreshReqs <= 1 /\ gvt.loginReqs <= 1)
    /\ [][RefreshSent =>
            /\ gvt.refreshReqs = 0
            /\ gvt.loginReqs = 0
            /\ refresh_tokens[base_url] # NoRefresh
            /\ gvt.after401 \/ ~gvt.present]_vars
    /\ [][LoginSent =>
            /\ gvt.loginReqs = 0
            /\ \/ refresh_tokens[base_url] = NoRefresh /\ gvt.refreshReqs = 0
               \/ gvt.refreshReqs = 1 /\ gvt.ret = NoToken]_vars
    /\ [][(LoginSent /\ gvt'.ret = NoToken) =>
            /\ handed' = handed
            /\ pc' # "send"
            /\ IF phase = "fallback"
               THEN pc' = "done" /\ result'.exc = "Could not authenticate to MCS"
               ELSE phase' = "fallback"]_vars

\* C14: the request a frame sends after its endpoint answered 401 goes to
\* that same endpoint and carries the token that a refresh or a login of a
\* get_valid_token call started after the 401 has returned: the newest
\* token of the endpoint, not the one found in the store.
RetrySent == pc = "send" /\ attempt = 2 /\ sent' # sent
C14_RetryWithNewToken ==
    [][RetrySent =>
        /\ frame.reqs[Len(frame.reqs)].status = "401"
        /\ frame.reqs[Len(frame.reqs)].to = frame.ep
        /\ wire'.kind = "resource"
        /\ wire'.to = frame.ep
        /\ gvt.ep = frame.ep
        /\ gvt.after401
        /\ gvt.refreshReqs + gvt.loginReqs >= 1
        /\ wire'.tok # NoToken
        /\ wire'.tok = gvt.ret
        /\ wire'.tok # gvt.stored
        /\ wire'.tok.ep = frame.ep
        /\ wire'.tok.n = issued[frame.ep]]_vars

C14_Witness ==
    /\ Len(frame.reqs) = 2
    /\ frame.reqs[1].status = "401"
    /\ frame.ep = base_primary
    /\ wire.kind = "resource"
    /\ wire.to = base_primary
    /\ wire.tok.n = 2

\* C15: the process ends only by a shutdown request; an error of a
\* collection run is printed and the loop goes on to the next run.
C15_LoopSurvivesErrors ==
    main.pc = "exited" => main.exit = "shutdown"

\* C16: when the database part of a function has failed in a collection
\* run, the failure is printed and, by the end of the run, all four
\* functions have been called.
C16_SinkFailureKeepsSiblings ==
    (/\ main.failed # {}
     /\ main.pc \in {"sleep", "exited"}
     /\ main.exit # "shutdown") =>
        /\ "Database error" \in main.log
        /\ main.ran = Functions

\* C17: a save_token call that returns without raising leaves the access
\* token and the refresh token it was given in the endpoint's columns.
C17_SaveSurfacesFailure ==
    (saved.ep \in Endpoints /\ ~saved.raised) =>
        /\ db.cols[ColumnsOf(saved.ep)].access = saved.access
        /\ db.cols[ColumnsOf(saved.ep)].refresh = saved.refresh

\* C18: a load_token call in which the connection, the query or the
\* conversion of the row raises returns nothing (None), whatever the
\* columns hold.
C18_LoadNeverFatal ==
    (loaded.ep \in Endpoints /\ ~loaded.dbOk) => loaded.rec = Absent

C18_Witness ==
    /\ loaded.ep = base_secondary
    /\ ~loaded.dbOk
    /\ loaded.rec = Absent
    /\ load_token(db, loaded.ep, loaded.at, TRUE).present

\* C19: of the bearer_token calls for one endpoint that run at the same
\* time and found no cached token, at most one sends a login request, and
\* those that have returned have returned the same token.
Concurrent(e) == {t \in Threads : call[t].ep = e /\ call[t].conc}
C19_OneLoginForConcurrentCallers ==
    \A e \in Endpoints :
        /\ Cardinality({t \in Concurrent(e) : call[t].logins > 0}) <= 1
        /\ \A s, t \in Concurrent(e) :
            (call[s].pc = "returned" /\ call[t].pc = "returned") =>
                call[s].ret = call[t].ret

\* C20: the refresh token in a refresh request is the one of the endpoint's
\* latest response, and right after a successful refresh the refresh token
\* held in _refresh_tokens is not older than the stored one.
C20_RefreshTokenCurrent ==
    /\ [][RefreshSent => wire'.rtok.n = issued[base_url]]_vars
    /\ []((gvt.refreshReqs = 1 /\ gvt.ret # NoToken /\ db.row) =>
            refresh_tokens[gvt.ep].n >= db.cols[ColumnsOf(gvt.ep)].refresh.n)

====
